---- MODULE Spec2Model ----
(***************************************************************************)
(* Model of the stock dashboard backend: the /ws/stocks handler and its    *)
(* ConnectionManager (backend/main.py), the watchlist endpoints            *)
(* and POST /api/chat (backend/main.py), the event loop on which the       *)
(* handlers run, and AIService (backend/ai_service.py).                    *)
(*                                                                         *)
(* Text is modelled as a sequence of one-character strings, so that        *)
(* upper-casing, substring search and number formatting are computed.      *)
(***************************************************************************)
EXTENDS Integers, Sequences, FiniteSets, TLC

VARIABLES
    pc,                 \* position of each /ws/stocks handler
    client_state,       \* websocket.client_state.name of each connection
    active_connections, \* manager.active_connections (a list)
    ws,                 \* per-connection observations of the handler
    watchlist,          \* rows of the Watchlist table
    http,               \* the last watchlist request and its response
    ctx,                \* a call of AIService.get_stock_context
    ai,                 \* a call of AIService.chat
    ext,                \* a call of AIService.extract_stock_symbol
    chat_history,       \* rows of the ChatHistory table
    chat,               \* the last POST /api/chat and its response
    task,               \* position of each handler around its quote fetch
    loop_thread         \* the handler inside which the event loop thread is

vars ==
    <<pc, client_state, active_connections, ws, watchlist, http, ctx, ai, ext,
      chat_history, chat, task, loop_thread>>

wsVars == <<pc, client_state, active_connections, ws>>
wlVars == <<watchlist, http>>
aiVars == <<ctx, ai, ext, chat_history, chat>>
loopVars == <<task, loop_thread>>

(***************************************************************************)
(* Bounds of the model.                                                    *)
(***************************************************************************)
NConns == 2
MaxFrames == 2
MaxRequests == 4
MaxWords == 3
MaxTurns == 8
MaxRows == 2

Conns == 1 .. NConns

(***************************************************************************)
(* Text: str.upper() on the letters the model uses.                        *)
(***************************************************************************)
LowerLetters ==
    <<"a", "b", "c", "d", "e", "f", "g", "h", "i", "j", "k", "l", "m",
      "n", "o", "p", "q", "r", "s", "t", "u", "v", "w", "x", "y", "z">>

UpperLetters ==
    <<"A", "B", "C", "D", "E", "F", "G", "H", "I", "J", "K", "L", "M",
      "N", "O", "P", "Q", "R", "S", "T", "U", "V", "W", "X", "Y", "Z">>

UpperChar(ch) ==
    IF \E i \in 1 .. Len(LowerLetters) : LowerLetters[i] = ch
    THEN UpperLetters[CHOOSE i \in 1 .. Len(LowerLetters) : LowerLetters[i] = ch]
    ELSE ch

\* s.upper()
upper(s) == [i \in 1 .. Len(s) |-> UpperChar(s[i])]

(***************************************************************************)
(* AIService.get_stock_context.  A text is a sequence of strings whose     *)
(* concatenation is the text; numbers are rendered digit by digit.         *)
(***************************************************************************)
DigitChars == <<"0", "1", "2", "3", "4", "5", "6", "7", "8", "9">>

RECURSIVE Digits(_)
\* str(n) for an int n
Digits(n) ==
    IF n < 0 THEN <<"-">> \o Digits(0 - n)
    ELSE IF n < 10 THEN <<DigitChars[n + 1]>>
    ELSE Digits(n \div 10) \o <<DigitChars[(n % 10) + 1]>>

\* The three digits of a group after the first.
Pad3(n) ==
    <<DigitChars[(n \div 100) + 1], DigitChars[((n \div 10) % 10) + 1],
      DigitChars[(n % 10) + 1]>>

RECURSIVE Commas(_)
\* format(n, ",") for an int n
Commas(n) ==
    IF n < 0 THEN <<"-">> \o Commas(0 - n)
    ELSE IF n < 1000 THEN Digits(n)
    ELSE Commas(n \div 1000) \o <<",">> \o Pad3(n % 1000)

\* Python values held by a snapshot.
PyNone == [t |-> "none"]
PyStr(chunks) == [t |-> "str", s |-> chunks]
PyInt(n) == [t |-> "int", n |-> n]
PyFloat(whole, frac) == [t |-> "float", whole |-> whole, frac |-> frac]

\* An Optional[Dict] argument.
NoDict == [isNone |-> TRUE]
SomeDict(d) == [isNone |-> FALSE, d |-> d]

\* format(v, fmt) as an f-string field does it, for fmt "" and ",".
Format(v, fmt) ==
    CASE v.t = "str" ->
           IF fmt = "," THEN [raised |-> TRUE, exc |-> "ValueError"]
           ELSE [raised |-> FALSE, text |-> v.s]
      [] v.t = "none" ->
           IF fmt = "," THEN [raised |-> TRUE, exc |-> "TypeError"]
           ELSE [raised |-> FALSE, text |-> <<"None">>]
      [] v.t = "int" ->
           [raised |-> FALSE,
            text |-> IF fmt = "," THEN Commas(v.n) ELSE Digits(v.n)]
      [] v.t = "float" ->
           [raised |-> FALSE,
            text |-> (IF fmt = "," THEN Commas(v.whole) ELSE Digits(v.whole))
                         \o <<".">> \o v.frac]

\* The lines of the template, in order: key, label, format spec, tail.
ContextLines ==
    << [key |-> "symbol", label |-> "- Symbol: ", fmt |-> "", tail |-> "\n"],
       [key |-> "company_name", label |-> "- Company: ", fmt |-> "", tail |-> "\n"],
       [key |-> "price", label |-> "- Current Price: $", fmt |-> "", tail |-> "\n"],
       [key |-> "change_percent", label |-> "- Change: ", fmt |-> "", tail |-> "%\n"],
       [key |-> "volume", label |-> "- Volume: ", fmt |-> ",", tail |-> "\n"],
       [key |-> "market_cap", label |-> "- Market Cap: $", fmt |-> ",", tail |-> "\n"],
       [key |-> "day_high", label |-> "- Day High: $", fmt |-> "", tail |-> "\n"],
       [key |-> "day_low", label |-> "- Day Low: $", fmt |-> "", tail |-> "\n"],
       [key |-> "pe_ratio", label |-> "- P/E Ratio: ", fmt |-> "", tail |-> "\n"],
       [key |-> "beta", label |-> "- Beta: ", fmt |-> "", tail |-> "\n"] >>

Fields == {ContextLines[i].key : i \in 1 .. Len(ContextLines)}

\* stock_data.get(key, 'N/A')
DictGet(d, key) == IF key \in DOMAIN d THEN d[key] ELSE PyStr(<<"N/A">>)

RECURSIVE RenderLines(_, _, _)
\* The f-string, field by field from line i on: the text so far, or the
\* exception of the first field whose formatting raises.
RenderLines(d, i, acc) ==
    IF i > Len(ContextLines) THEN [raised |-> FALSE, text |-> acc]
    ELSE LET ln == ContextLines[i]
             f == Format(DictGet(d, ln.key), ln.fmt)
         IN IF f.raised THEN f
            ELSE RenderLines(d, i + 1, acc \o <<ln.label>> \o f.text \o <<ln.tail>>)

\* AIService.get_stock_context(stock_data)
get_stock_context(stock_data) ==
    IF stock_data.isNone \/ DOMAIN stock_data.d = {}
    THEN [raised |-> FALSE, text |-> <<>>]
    ELSE RenderLines(stock_data.d, 1, <<"\nCurrent Stock Information:\n">>)

\* Values a quote may hold for each key.
FieldValues(key) ==
    CASE key = "symbol" -> {PyStr(<<"A", "A", "P", "L">>)}
      [] key = "company_name" -> {PyStr(<<"Apple Inc.">>)}
      [] key = "price" -> {PyFloat(175, <<"5">>)}
      [] key = "change_percent" -> {PyFloat(1, <<"2", "5">>)}
      [] key = "volume" -> {PyInt(999), PyInt(50000000)}
      [] key = "market_cap" -> {PyInt(1000), PyInt(2000000000)}
      [] key = "day_high" -> {PyFloat(177, <<"0">>)}
      [] key = "day_low" -> {PyFloat(174, <<"2", "5">>)}
      [] key = "pe_ratio" -> {PyFloat(28, <<"7">>)}
      [] key = "beta" -> {PyFloat(1, <<"2", "9">>)}

\* A key left out of the dict.
Absent == [t |-> "absent"]

\* What a quote may offer for each key: no entry, None or a value.
Offers(key) == FieldValues(key) \cup {PyNone, Absent}

LineOf(key) == CHOOSE i \in 1 .. Len(ContextLines) : ContextLines[i].key = key

\* The dict holding the offered values, line by line, without the absent keys.
MakeDict(vs) ==
    [k \in {ContextLines[i].key : i \in {j \in 1 .. Len(vs) : vs[j] # Absent}}
        |-> vs[LineOf(k)]]

ctx0 == [stage |-> "idle", stock_data |-> NoDict, result |-> [raised |-> FALSE, text |-> <<>>]]

(***************************************************************************)
(* AIService.chat: the message list, the inference call and its outcomes.  *)
(***************************************************************************)
system_prompt == <<"You are a helpful stock market assistant. [...]">>

OLLAMA_MODEL == <<"qwen2.5:0.5b">>

\* chat_history[-5:]
LastFive(history) ==
    SubSeq(history, IF Len(history) > 5 THEN Len(history) - 4 ELSE 1, Len(history))

\* msg.get(key, "")
MsgGet(msg, key) == IF key \in DOMAIN msg THEN msg[key] ELSE <<>>

RECURSIVE HistoryMessages(_)
\* The user and assistant messages of the given turns, turn by turn.
HistoryMessages(turns) ==
    IF turns = <<>> THEN <<>>
    ELSE << [role |-> "user", content |-> MsgGet(Head(turns), "user_message")],
            [role |-> "assistant", content |-> MsgGet(Head(turns), "ai_response")] >>
             \o HistoryMessages(Tail(turns))

\* Lines 90-102 of chat: the message list, or the exception get_stock_context
\* raises (the list is built before the try block).
BuildMessages(user_message, stock_data, history) ==
    LET past == IF history.isNone \/ history.list = <<>>
                THEN <<>>
                ELSE HistoryMessages(LastFive(history.list))
        head == <<[role |-> "system", content |-> system_prompt]>> \o past
    IN IF stock_data.isNone \/ DOMAIN stock_data.d = {}
       THEN [raised |-> FALSE,
             messages |-> Append(head, [role |-> "user", content |-> user_message])]
       ELSE LET context == get_stock_context(stock_data)
            IN IF context.raised
               THEN [raised |-> TRUE, exc |-> context.exc]
               ELSE [raised |-> FALSE,
                     messages |->
                         Append(head,
                                [role |-> "user",
                                 content |-> context.text
                                                 \o <<"\n\nUser Question: ">>
                                                 \o user_message])]

\* The base class of an exception class (httpx and the standard library).
Base(cls) ==
    CASE cls \in {"ConnectTimeout", "ReadTimeout", "WriteTimeout", "PoolTimeout"}
             -> "TimeoutException"
      [] cls \in {"ConnectError", "ReadError", "WriteError", "CloseError"}
             -> "NetworkError"
      [] cls \in {"TimeoutException", "NetworkError", "ProtocolError"}
             -> "TransportError"
      [] cls = "RemoteProtocolError" -> "ProtocolError"
      [] cls = "TransportError" -> "RequestError"
      [] cls = "RequestError" -> "HTTPError"
      [] cls = "JSONDecodeError" -> "ValueError"
      [] cls \in {"HTTPError", "ValueError", "AttributeError"} -> "Exception"
      [] cls = "Exception" -> "BaseException"
      [] OTHER -> "object"

RECURSIVE IsSubclass(_, _)
IsSubclass(cls, of) ==
    IF cls = of THEN TRUE
    ELSE IF cls = "object" THEN FALSE
    ELSE IsSubclass(Base(cls), of)

SlowMessage ==
    <<"The AI is taking too long to respond. Please try again with a shorter question.">>

UnreachableMessage ==
    <<"Cannot connect to the AI service. Please ensure Ollama is running (brew services start ollama).">>

EmptyMessage == <<"I couldn't generate a response. Please try again.">>

StatusMessage ==
    <<"I encountered an error. Please make sure Ollama is running with the model '">>
        \o OLLAMA_MODEL \o <<"'.">>

ErrorMessage(detail) ==
    <<"I encountered an error processing your request: ">> \o detail

\* The except clauses with the generic clause first.
HandleGenericFirst(e) ==
    IF IsSubclass(e.class, "Exception")
    THEN [raised |-> FALSE, value |-> PyStr(ErrorMessage(e.detail))]
    ELSE [raised |-> TRUE, exc |-> e.class]

\* Lines 124-130: the except clauses of chat, in order.
Handle(e) ==
    IF IsSubclass(e.class, "TimeoutException")
    THEN [raised |-> FALSE, value |-> PyStr(SlowMessage)]
    ELSE IF IsSubclass(e.class, "ConnectError")
    THEN [raised |-> FALSE, value |-> PyStr(UnreachableMessage)]
    ELSE IF IsSubclass(e.class, "Exception")
    THEN [raised |-> FALSE, value |-> PyStr(ErrorMessage(e.detail))]
    ELSE [raised |-> TRUE, exc |-> e.class]

\* A Python value in a boolean context.
Truthy(v) ==
    CASE v.t = "none" -> FALSE
      [] v.t = "str" -> v.s # <<>>
      [] v.t = "int" -> v.n # 0
      [] OTHER -> TRUE

\* Lines 116-122: the response of the endpoint.  body is the decoded JSON:
\* "invalid" (json() raises), or a dict whose "message" is missing, None or a
\* dict whose "content" is missing or a value.
OnResponse(r) ==
    IF r.status = 200
    THEN IF r.body.json = "invalid"
         THEN Handle([class |-> "JSONDecodeError",
                      detail |-> <<"Expecting value: line 1 column 1 (char 0)">>])
         ELSE IF r.body.message = "missing"
         THEN [raised |-> FALSE, value |-> PyStr(EmptyMessage)]
         ELSE IF r.body.message = "none"
         THEN Handle([class |-> "AttributeError",
                      detail |-> <<"'NoneType' object has no attribute 'get'">>])
         ELSE LET ai_response == IF r.body.content = Absent
                                 THEN PyStr(<<>>)
                                 ELSE r.body.content
              IN IF Truthy(ai_response)
                 THEN [raised |-> FALSE, value |-> ai_response]
                 ELSE [raised |-> FALSE, value |-> PyStr(EmptyMessage)]
    ELSE [raised |-> FALSE, value |-> PyStr(StatusMessage)]

\* Lines 104-130: what chat returns for an outcome of client.post.
Respond(outcome) ==
    IF outcome.kind = "exception" THEN Handle(outcome) ELSE OnResponse(outcome)

\* Outcomes of the inference call.
JsonBody(message, content) == [json |-> "ok", message |-> message, content |-> content]

Outcomes ==
    { [kind |-> "exception", class |-> c, detail |-> <<"timed out">>] :
          c \in {"ConnectTimeout", "ReadTimeout", "WriteTimeout", "PoolTimeout"} }
    \cup { [kind |-> "exception", class |-> "ConnectError",
            detail |-> <<"All connection attempts failed">>],
           [kind |-> "exception", class |-> "ReadError", detail |-> <<>>],
           [kind |-> "exception", class |-> "RemoteProtocolError",
            detail |-> <<"Server disconnected without sending a response.">>] }
    \cup { [kind |-> "response", status |-> 200, body |-> b] :
             b \in { JsonBody("dict", PyStr(<<"Apple is up today.">>)),
                     JsonBody("dict", PyStr(<<>>)),
                     JsonBody("dict", PyNone),
                     JsonBody("dict", Absent),
                     JsonBody("missing", Absent),
                     JsonBody("none", Absent),
                     [json |-> "invalid", message |-> "missing", content |-> Absent] } }
    \cup { [kind |-> "response", status |-> st,
            body |-> [json |-> "invalid", message |-> "missing", content |-> Absent]] :
             st \in {404, 500} }

\* The snapshot of the module's own test run, and snapshots with holes.
FullSnapshot ==
    [k \in Fields |->
        IF k = "volume" THEN PyInt(50000000)
        ELSE IF k = "market_cap" THEN PyInt(2000000000)
        ELSE CHOOSE v \in FieldValues(k) : TRUE]

Without(d, key) == [k \in (DOMAIN d) \ {key} |-> d[k]]

ChatSnapshots ==
    { NoDict, SomeDict([k \in {} |-> PyNone]), SomeDict(FullSnapshot),
      SomeDict(Without(FullSnapshot, "pe_ratio")),
      SomeDict([FullSnapshot EXCEPT !["beta"] = PyNone]),
      SomeDict(Without(FullSnapshot, "volume")),
      SomeDict([FullSnapshot EXCEPT !["market_cap"] = PyNone]) }

ChatQuestions == { <<"h", "i">>, <<"W", "h", "a", "t", " ", "a", "b", "o", "u", "t", " ", "A", "A", "P", "L", "?">> }

\* Turn i of a history passed to chat.
Turn(i) == [user_message |-> <<"question ">> \o Digits(i),
            ai_response |-> <<"answer ">> \o Digits(i)]

NoList == [isNone |-> TRUE]
SomeList(l) == [isNone |-> FALSE, list |-> l]

ChatHistories ==
    { NoList, SomeList(<<>>), SomeList(<<Turn(1), [user_message |-> <<"question 2">>]>>),
      SomeList([i \in 1 .. 7 |-> Turn(i)]) }

ai0 ==
    [stage |-> "idle", user_message |-> <<>>, stock_data |-> NoDict,
     chat_history |-> NoList, built |-> [raised |-> FALSE, messages |-> <<>>],
     outcome |-> [kind |-> "none"], result |-> [raised |-> FALSE, value |-> PyNone]]

(***************************************************************************)
(* AIService.extract_stock_symbol.                                         *)
(***************************************************************************)
common_symbols ==
    << <<"A", "A", "P", "L">>,
       <<"G", "O", "O", "G", "L">>,
       <<"M", "S", "F", "T">>,
       <<"A", "M", "Z", "N">>,
       <<"T", "S", "L", "A">>,
       <<"M", "E", "T", "A">>,
       <<"N", "V", "D", "A">>,
       <<"J", "P", "M">>,
       <<"V">>,
       <<"W", "M", "T">> >>

\* sub in s
Contains(sub, s) ==
    \E i \in 0 .. (Len(s) - Len(sub)) : SubSeq(s, i + 1, i + Len(sub)) = sub

RECURSIVE ScanSymbols(_, _)
\* The for loop over common_symbols from index i on.
ScanSymbols(i, text) ==
    IF i > Len(common_symbols) THEN PyNone
    ELSE IF Contains(common_symbols[i], text) THEN PyStr(common_symbols[i])
    ELSE ScanSymbols(i + 1, text)

\* The message is scanned as it was typed.
ExtractCaseSensitive(user_message) == ScanSymbols(1, user_message)

\* AIService.extract_stock_symbol(user_message)
extract_stock_symbol(user_message) == ScanSymbols(1, upper(user_message))

\* Pieces of text a message is made of.
Words ==
    { <<"H", "o", "w", " ", "i", "s", " ">>,
      <<"V">>,
      <<" ", "d", "o", "i", "n", "g", " ", "t", "o", "d", "a", "y">>,
      <<"a", "a", "p", "l">>,
      <<"T", "S", "L", "A">>,
      <<"w", "m", "t">>,
      <<"N", "v", "d", "a">>,
      <<"m", "s", "f", "t", " ">>,
      <<"J">>,
      <<"P", "M">>,
      <<"l", "o", "v", "e">>,
      <<" ", "a", "n", "d", " ">> }

RECURSIVE Concat(_)
Concat(parts) ==
    IF parts = <<>> THEN <<>> ELSE Head(parts) \o Concat(Tail(parts))

ext0 == [stage |-> "idle", message |-> <<>>, result |-> PyNone]

(***************************************************************************)
(* POST /api/chat: the history query, the call of AIService.chat and the   *)
(* saved turn.                                                             *)
(***************************************************************************)
Sessions == {"s1", "s2"}

history_limit == 5

\* The creation time a new ChatHistory row gets: later than every row's.
created_at_default(rows) == Len(rows) + 1

\* ChatHistory.to_dict()
to_dict(row) ==
    [session_id |-> row.session_id, user_message |-> row.user_message,
     ai_response |-> row.ai_response, stock_symbol |-> row.stock_symbol,
     created_at |-> row.created_at]

RECURSIVE Reversed(_)
\* reversed(list)
Reversed(list) ==
    IF list = <<>> THEN <<>> ELSE Append(Reversed(Tail(list)), Head(list))

RECURSIVE NewestFirst(_, _)
\* The rows at the given indices by created_at descending, at most limit of them.
NewestFirst(rows, picked) ==
    IF picked = {} THEN <<>>
    ELSE LET i == CHOOSE i \in picked :
                      \A j \in picked : rows[j].created_at <= rows[i].created_at
         IN <<rows[i]>> \o NewestFirst(rows, picked \ {i})

\* db.query(ChatHistory).filter(session_id == ...)
\*     .order_by(ChatHistory.created_at.desc()).limit(5).all()
QueryHistory(rows, session_id) ==
    LET all == NewestFirst(rows, {i \in 1 .. Len(rows) : rows[i].session_id = session_id})
    IN SubSeq(all, 1, IF Len(all) < history_limit THEN Len(all) ELSE history_limit)

\* The rows are passed on as the query gave them, newest first.
HistoryListNewestFirst(rows, session_id) ==
    LET history == QueryHistory(rows, session_id)
    IN [i \in 1 .. Len(history) |-> to_dict(history[i])]

\* history_list = [h.to_dict() for h in reversed(history)]
HistoryList(rows, session_id) ==
    LET history == Reversed(QueryHistory(rows, session_id))
    IN [i \in 1 .. Len(history) |-> to_dict(history[i])]

NoSymbol == [isNone |-> TRUE]
SomeSymbol(sym) == [isNone |-> FALSE, s |-> sym]

\* The quote stock_service.get_stock_data(symbol) gives when it has one.
QuoteFor(symbol) == SomeDict([FullSnapshot EXCEPT !["symbol"] = PyStr(symbol)])

\* Lines 408-416 of chat: the snapshot, if a symbol is given or found in the
\* message; fetched is what get_stock_data returns for that symbol.
StockData(message, stock_symbol, fetched) ==
    IF ~stock_symbol.isNone /\ stock_symbol.s # <<>>
    THEN fetched
    ELSE IF extract_stock_symbol(message) # PyNone THEN fetched ELSE NoDict

\* The symbol get_stock_data is asked for, if any.
AskedSymbol(message, stock_symbol) ==
    IF ~stock_symbol.isNone /\ stock_symbol.s # <<>>
    THEN PyStr(upper(stock_symbol.s))
    ELSE extract_stock_symbol(message)

\* The request's stock_symbol is saved as it was sent.
SavedSymbolAsSent(stock_data, stock_symbol) ==
    IF stock_symbol.isNone THEN PyNone ELSE PyStr(stock_symbol.s)

\* Line 437: stock_symbol = stock_data['symbol'] if stock_data else None
\* (the caller has checked that a non-empty stock_data has the key).
SavedSymbol(stock_data, stock_symbol) ==
    IF stock_data.isNone \/ DOMAIN stock_data.d = {}
    THEN PyNone
    ELSE stock_data.d["symbol"]

chat0 ==
    [status |-> 0, session_id |-> "", user_message |-> <<>>,
     stock_symbol |-> NoSymbol, stock_data |-> NoDict,
     built |-> [raised |-> FALSE, messages |-> <<>>], response |-> PyNone]

(***************************************************************************)
(* The event loop and the thread pool (backend/main.py).  uvicorn.run      *)
(* serves every handler on one event loop thread; a handler keeps that     *)
(* thread from one await to the next.                                      *)
(***************************************************************************)
\* The handlers that fetch quotes from stock_service.
Handlers ==
    { "websocket_endpoint", "get_stock", "get_stock_history", "chat",
      "get_batch_stocks", "get_market_indices", "get_trending_stocks",
      "get_watchlist" }

\* The handlers whose fetch is wrapped in loop.run_in_executor(None, ...);
\* the others call stock_service directly in the coroutine.
Delegated(h) ==
    h \in { "get_batch_stocks", "get_market_indices", "get_trending_stocks",
            "get_watchlist" }

task0 == [h \in Handlers |-> "idle"]

\* A request arrives (for /ws/stocks: the 30 s sleep of the loop is over);
\* the handler waits for the event loop thread.
Arrive(h) ==
    /\ task[h] = "idle"
    /\ task' = [task EXCEPT ![h] = "ready"]
    /\ UNCHANGED <<loop_thread, wsVars, wlVars, aiVars>>

\* The event loop runs the handler up to  await loop.run_in_executor(...):
\* the fetch goes to a pool thread and the event loop thread is released.
SubmitToPool(h) ==
    /\ task[h] = "ready"
    /\ loop_thread = "free"
    /\ Delegated(h)
    /\ task' = [task EXCEPT ![h] = "pool"]
    /\ UNCHANGED <<loop_thread, wsVars, wlVars, aiVars>>

\* The event loop runs the handler into a direct stock_service call: the
\* event loop thread itself is inside the fetch.
FetchInline(h) ==
    /\ task[h] = "ready"
    /\ loop_thread = "free"
    /\ ~Delegated(h)
    /\ task' = [task EXCEPT ![h] = "inline"]
    /\ loop_thread' = h
    /\ UNCHANGED <<wsVars, wlVars, aiVars>>

\* The pool thread finishes the fetch; the awaiting handler can be resumed.
PoolFetchReturns(h) ==
    /\ task[h] = "pool"
    /\ task' = [task EXCEPT ![h] = "resumable"]
    /\ UNCHANGED <<loop_thread, wsVars, wlVars, aiVars>>

\* The direct call returns; the handler goes on to its next await or its
\* return, where the event loop thread is released.
InlineFetchReturns(h) ==
    /\ task[h] = "inline"
    /\ loop_thread = h
    /\ task' = [task EXCEPT ![h] = "idle"]
    /\ loop_thread' = "free"
    /\ UNCHANGED <<wsVars, wlVars, aiVars>>

\* The event loop resumes the handler after its await and it returns.
Resume(h) ==
    /\ task[h] = "resumable"
    /\ loop_thread = "free"
    /\ task' = [task EXCEPT ![h] = "idle"]
    /\ UNCHANGED <<loop_thread, wsVars, wlVars, aiVars>>

(***************************************************************************)
(* ConnectionManager and the /ws/stocks handler.                           *)
(***************************************************************************)
InList(list, x) == \E i \in 1 .. Len(list) : list[i] = x

\* list.remove(x) of another element: pops the tail instead of x.
RemovePop(list, x) == SubSeq(list, 1, Len(list) - 1)

\* list.remove(x): drops the first element equal to x (the caller has
\* checked that there is one).
Remove(list, x) ==
    LET i == CHOOSE k \in 1 .. Len(list) :
                 list[k] = x /\ \A j \in 1 .. (k - 1) : list[j] # x
    IN SubSeq(list, 1, i - 1) \o SubSeq(list, i + 1, Len(list))

\* manager.disconnect(websocket): list.remove raises ValueError when the
\* element is not in the list.
disconnect(list, x) ==
    IF InList(list, x)
    THEN [list |-> Remove(list, x), error |-> "none"]
    ELSE [list |-> list, error |-> "ValueError"]

\* The handlers before any connection is opened.
pc0 == [c \in Conns |-> "new"]
client_state0 == [c \in Conns |-> "CONNECTING"]
ws0 ==
    [c \in Conns |->
        [registered |-> FALSE, frames |-> 0,
         disconnects |-> 0, bad_disconnects |-> 0, exit |-> "none",
         after_peer_exit |-> FALSE,
         checked |-> "none", fetches |-> 0, sends |-> 0]]

\* Some other handler has already returned after a failure.
PeerFailed(c) ==
    \E d \in Conns \ {c} :
        pc[d] = "done" /\ ws[d].exit \in {"fetch_error", "send_error"}

\* manager.connect(websocket): accept() succeeds and the socket is appended.
Connect(c) ==
    /\ pc[c] = "new"
    /\ pc' = [pc EXCEPT ![c] = "check"]
    /\ client_state' = [client_state EXCEPT ![c] = "CONNECTED"]
    /\ active_connections' = Append(active_connections, c)
    /\ ws' = [ws EXCEPT ![c].registered = TRUE]
    /\ UNCHANGED <<wlVars, aiVars, loopVars>>

\* manager.connect(websocket): accept() raises; nothing is registered and the
\* handler ends before its try block.
ConnectFails(c) ==
    /\ pc[c] = "new"
    /\ pc' = [pc EXCEPT ![c] = "done"]
    /\ client_state' = [client_state EXCEPT ![c] = "DISCONNECTED"]
    /\ ws' = [ws EXCEPT ![c].exit = "accept_error"]
    /\ UNCHANGED <<active_connections, wlVars, aiVars, loopVars>>

\* The transport marks the client side closed while the handler runs.
ClientCloses(c) ==
    /\ pc[c] \in {"check", "fetch", "send", "sleep"}
    /\ client_state[c] = "CONNECTED"
    /\ client_state' = [client_state EXCEPT ![c] = "DISCONNECTED"]
    /\ UNCHANGED <<pc, active_connections, ws, wlVars, aiVars, loopVars>>

\* Top of an iteration: leave the loop unless the state is CONNECTED.
\* checked, fetches and sends observe the iteration that starts here: the
\* state the check found and the calls of get_multiple_stocks and send_json.
CheckState(c) ==
    /\ pc[c] = "check"
    /\ IF client_state[c] # "CONNECTED"
       THEN /\ pc' = [pc EXCEPT ![c] = "finally"]
            /\ ws' = [ws EXCEPT ![c].exit = "state",
                               ![c].checked = client_state[c],
                               ![c].fetches = 0, ![c].sends = 0]
       ELSE /\ pc' = [pc EXCEPT ![c] = "fetch"]
            /\ ws' = [ws EXCEPT ![c].checked = client_state[c],
                               ![c].fetches = 0, ![c].sends = 0]
    /\ UNCHANGED <<client_state, active_connections, wlVars, aiVars, loopVars>>

\* Frames sent so far, to all connections, and frames about to be sent.
RECURSIVE FramesUpTo(_)
FramesUpTo(n) ==
    IF n = 0 THEN 0
    ELSE FramesUpTo(n - 1) + ws[n].frames + (IF pc[n] = "send" THEN 1 ELSE 0)

\* stock_service.get_multiple_stocks(tracked_symbols) returns.
Fetch(c) ==
    /\ pc[c] = "fetch"
    /\ FramesUpTo(NConns) < MaxFrames
    /\ pc' = [pc EXCEPT ![c] = "send"]
    /\ ws' = [ws EXCEPT ![c].fetches = @ + 1]
    /\ UNCHANGED <<client_state, active_connections, wlVars, aiVars, loopVars>>

\* The fetch raises: caught by the inner except, which breaks.
FetchFails(c) ==
    /\ pc[c] = "fetch"
    /\ pc' = [pc EXCEPT ![c] = "finally"]
    /\ ws' = [ws EXCEPT ![c].exit = "fetch_error", ![c].fetches = @ + 1]
    /\ UNCHANGED <<client_state, active_connections, wlVars, aiVars, loopVars>>

\* websocket.send_json(...) delivers one stock_update frame.
Send(c) ==
    /\ pc[c] = "send"
    /\ pc' = [pc EXCEPT ![c] = "sleep"]
    /\ ws' = [ws EXCEPT ![c].frames = @ + 1, ![c].sends = @ + 1,
                       ![c].after_peer_exit = @ \/ PeerFailed(c)]
    /\ UNCHANGED <<client_state, active_connections, wlVars, aiVars, loopVars>>

\* send_json raises and the handler goes back to fetch and send again.
SendFailsRetry(c) ==
    /\ pc[c] = "send"
    /\ pc' = [pc EXCEPT ![c] = "fetch"]
    /\ ws' = [ws EXCEPT ![c].exit = "send_error", ![c].sends = @ + 1]
    /\ UNCHANGED <<client_state, active_connections, wlVars, aiVars, loopVars>>

\* send_json raises (an Exception, WebSocketDisconnect included): caught by
\* the inner except, which breaks.
SendFails(c) ==
    /\ pc[c] = "send"
    /\ pc' = [pc EXCEPT ![c] = "finally"]
    /\ ws' = [ws EXCEPT ![c].exit = "send_error", ![c].sends = @ + 1]
    /\ UNCHANGED <<client_state, active_connections, wlVars, aiVars, loopVars>>

\* asyncio.sleep(30) returns.
Sleep(c) ==
    /\ pc[c] = "sleep"
    /\ pc' = [pc EXCEPT ![c] = "check"]
    /\ UNCHANGED <<client_state, active_connections, ws, wlVars, aiVars, loopVars>>

\* The task is cancelled, or another exception is raised, while it is
\* suspended in sleep: the outer handlers or none, then the finally block.
SleepRaises(c) ==
    /\ pc[c] = "sleep"
    /\ \E e \in {"WebSocketDisconnect", "Exception", "CancelledError"} :
           ws' = [ws EXCEPT ![c].exit = e]
    /\ pc' = [pc EXCEPT ![c] = "finally"]
    /\ UNCHANGED <<client_state, active_connections, wlVars, aiVars, loopVars>>

\* finally: if websocket in manager.active_connections: manager.disconnect(websocket)
Cleanup(c) ==
    /\ pc[c] = "finally"
    /\ pc' = [pc EXCEPT ![c] = "done"]
    /\ IF InList(active_connections, c)
       THEN LET r == disconnect(active_connections, c)
            IN /\ active_connections' = r.list
               /\ ws' = [ws EXCEPT
                            ![c].disconnects = @ + 1,
                            ![c].bad_disconnects =
                                @ + (IF r.error = "none" THEN 0 ELSE 1)]
       ELSE UNCHANGED <<active_connections, ws>>
    /\ UNCHANGED <<client_state, wlVars, aiVars, loopVars>>

websocket_endpoint(c) ==
    \/ Connect(c)
    \/ ConnectFails(c)
    \/ ClientCloses(c)
    \/ CheckState(c)
    \/ Fetch(c)
    \/ FetchFails(c)
    \/ Send(c)
    \/ SendFails(c)
    \/ Sleep(c)
    \/ SleepRaises(c)
    \/ Cleanup(c)

NextWS == \E c \in Conns : websocket_endpoint(c)

(***************************************************************************)
(* The watchlist endpoints.  A request is handled without suspension, so   *)
(* each handler is one step.                                               *)
(***************************************************************************)
Users == {"default_user", "alice"}

RequestSymbols ==
    { <<"A", "A", "P", "L">>, <<"a", "a", "p", "l">>, <<"A", "a", "p", "l">>,
      <<"T", "S", "L", "A">>, <<"t", "s", "l", "a">> }

http0 == [seq |-> 0, op |-> "none", user_id |-> "", symbol |-> <<>>, status |-> 0]

\* The filter compares the stored symbol with the symbol as it was sent.
FirstMatchRaw(rows, user_id, symbol) ==
    LET hits == {i \in 1 .. Len(rows) :
                    rows[i].user_id = user_id /\ rows[i].symbol = symbol}
    IN IF hits = {} THEN 0 ELSE CHOOSE i \in hits : \A j \in hits : i <= j

\* The filter looks at the symbol alone.
FirstMatchAnyUser(rows, user_id, symbol) ==
    LET hits == {i \in 1 .. Len(rows) : rows[i].symbol = upper(symbol)}
    IN IF hits = {} THEN 0 ELSE CHOOSE i \in hits : \A j \in hits : i <= j

\* db.query(Watchlist).filter(user_id == ..., symbol == symbol.upper()).first():
\* the index of the first matching row, 0 for None.
FirstMatch(rows, user_id, symbol) ==
    LET hits == {i \in 1 .. Len(rows) :
                    rows[i].user_id = user_id /\ rows[i].symbol = upper(symbol)}
    IN IF hits = {} THEN 0 ELSE CHOOSE i \in hits : \A j \in hits : i <= j

\* POST /api/watchlist
add_to_watchlist(user_id, symbol) ==
    /\ http.seq < MaxRequests
    /\ LET exists == FirstMatch(watchlist, user_id, symbol)
       IN IF exists # 0
          THEN /\ watchlist' = watchlist
               /\ http' = [seq |-> http.seq + 1, op |-> "add", user_id |-> user_id,
                           symbol |-> symbol, status |-> 400]
          ELSE /\ watchlist' = Append(watchlist,
                                      [user_id |-> user_id, symbol |-> upper(symbol)])
               /\ http' = [seq |-> http.seq + 1, op |-> "add", user_id |-> user_id,
                           symbol |-> symbol, status |-> 200]
    /\ UNCHANGED <<wsVars, aiVars, loopVars>>

\* DELETE /api/watchlist/{symbol}
remove_from_watchlist(user_id, symbol) ==
    /\ http.seq < MaxRequests
    /\ LET item == FirstMatch(watchlist, user_id, symbol)
       IN IF item = 0
          THEN /\ watchlist' = watchlist
               /\ http' = [seq |-> http.seq + 1, op |-> "remove", user_id |-> user_id,
                           symbol |-> symbol, status |-> 404]
          ELSE /\ watchlist' = SubSeq(watchlist, 1, item - 1)
                                   \o SubSeq(watchlist, item + 1, Len(watchlist))
               /\ http' = [seq |-> http.seq + 1, op |-> "remove", user_id |-> user_id,
                           symbol |-> symbol, status |-> 200]
    /\ UNCHANGED <<wsVars, aiVars, loopVars>>

NextWL ==
    \E u \in Users, s \in RequestSymbols :
        \/ add_to_watchlist(u, s)
        \/ remove_from_watchlist(u, s)

InitWL ==
    /\ pc = pc0
    /\ task = task0
    /\ loop_thread = "free"
    /\ client_state = client_state0
    /\ active_connections = <<>>
    /\ ws = ws0
    /\ watchlist = <<>>
    /\ http = http0
    /\ chat_history = <<>>
    /\ chat = chat0
    /\ ctx = ctx0
    /\ ai = ai0
    /\ ext = ext0

SpecWL == InitWL /\ [][NextWL]_vars

\* Number of rows of the store for a (user_id, symbol) pair.
Rows(rows, user_id, symbol) ==
    Cardinality({i \in 1 .. Len(rows) :
                    rows[i].user_id = user_id /\ rows[i].symbol = symbol})

\* A step that handles one watchlist request.
Handled == http'.seq = http.seq + 1

\* C3: after any sequence of POST and DELETE watchlist requests, from any
\* users and in any letter case, the store holds at most one row for each
\* (user_id, uppercased symbol) pair.
C3_AtMostOneRowPerPair ==
    /\ \A u \in Users, s \in RequestSymbols : Rows(watchlist, u, upper(s)) <= 1
    /\ \A i \in 1 .. Len(watchlist) :
           /\ watchlist[i].symbol = upper(watchlist[i].symbol)
           /\ \A j \in 1 .. Len(watchlist) : watchlist[i] = watchlist[j] => i = j

\* The same pair was added in two letter cases and then again after a remove.
C3_Witness ==
    /\ http.seq = MaxRequests
    /\ http.op = "add" /\ http.status = 400
    /\ http.symbol = <<"a", "a", "p", "l">>
    /\ Len(watchlist) = 3
    /\ Rows(watchlist, "alice", <<"A", "A", "P", "L">>) = 1
    /\ Rows(watchlist, "default_user", <<"A", "A", "P", "L">>) = 1

\* C4: adding a (user, symbol) pair twice with no remove in between yields
\* exactly one stored row: the first add succeeds, the second returns 400 and
\* leaves the store unchanged.
C4_SecondAddRejected ==
    [][/\ (Handled /\ http'.op = "add") =>
              IF Rows(watchlist, http'.user_id, upper(http'.symbol)) = 0
              THEN /\ http'.status = 200
                   /\ Rows(watchlist', http'.user_id, upper(http'.symbol)) = 1
                   /\ Len(watchlist') = Len(watchlist) + 1
              ELSE /\ http'.status = 400
                   /\ watchlist' = watchlist
       /\ (/\ Handled
           /\ http.op = "add" /\ http.status = 200
           /\ http'.op = "add" /\ http'.user_id = http.user_id
           /\ upper(http'.symbol) = upper(http.symbol)) =>
              /\ http'.status = 400
              /\ watchlist' = watchlist
              /\ Rows(watchlist', http.user_id, upper(http.symbol)) = 1]_vars

\* The second of two adds of one pair, in another letter case, was rejected.
C4_Witness ==
    /\ http.seq = 2
    /\ http.op = "add" /\ http.status = 400
    /\ http.user_id = "alice"
    /\ http.symbol = <<"t", "s", "l", "a">>
    /\ watchlist = << [user_id |-> "alice", symbol |-> <<"T", "S", "L", "A">>] >>

\* C5: DELETE for a (user, symbol) pair that is not in the store returns 404
\* and leaves the store unchanged.
C5_RemoveAbsentIs404 ==
    [][(/\ Handled
        /\ http'.op = "remove"
        /\ Rows(watchlist, http'.user_id, upper(http'.symbol)) = 0) =>
           /\ http'.status = 404
           /\ watchlist' = watchlist]_vars

\* A remove of a pair another user holds, and the remover does not, got 404.
C5_Witness ==
    /\ http.op = "remove" /\ http.status = 404
    /\ http.user_id = "default_user"
    /\ http.symbol = <<"a", "a", "p", "l">>
    /\ Rows(watchlist, "alice", <<"A", "A", "P", "L">>) = 1
    /\ Rows(watchlist, "default_user", <<"A", "A", "P", "L">>) = 0


InitWS ==
    /\ pc = pc0
    /\ task = task0
    /\ loop_thread = "free"
    /\ client_state = client_state0
    /\ active_connections = <<>>
    /\ ws = ws0
    /\ watchlist = <<>>
    /\ http = http0
    /\ chat_history = <<>>
    /\ chat = chat0
    /\ ctx = ctx0
    /\ ai = ai0
    /\ ext = ext0

SpecWS == InitWS /\ [][NextWS]_vars

InLoop(c) == pc[c] \in {"check", "fetch", "send", "sleep", "finally"}

\* C1: a connection that connect() registered is unregistered exactly once
\* whichever way the handler exits: once the handler has returned it is not in
\* active_connections and disconnect() ran once for it, and disconnect() is
\* never called for a connection that is not in the registry (no ValueError).
C1_UnregisteredExactlyOnce ==
    \A c \in Conns :
        /\ ws[c].bad_disconnects = 0
        /\ ws[c].disconnects <= 1
        /\ (~ws[c].registered => ws[c].disconnects = 0)
        /\ (pc[c] = "done" /\ ws[c].registered) =>
               /\ ~InList(active_connections, c)
               /\ ws[c].disconnects = 1
        /\ (InLoop(c) => ws[c].disconnects = 0)

\* Every exit path of a registered handler has been taken and cleaned up.
C1_Witness ==
    /\ \A c \in Conns : pc[c] = "done" /\ ws[c].registered /\ ws[c].disconnects = 1
    /\ ws[1].exit = "send_error"
    /\ ws[2].exit = "state"
    /\ active_connections = <<>>

C1_WitnessOtherExits ==
    \E c \in Conns, d \in Conns :
        /\ pc[c] = "done" /\ ws[c].exit = "fetch_error" /\ ws[c].disconnects = 1
        /\ pc[d] = "done" /\ ws[d].exit = "CancelledError" /\ ws[d].disconnects = 1

\* A step in which handler c leaves its loop on a failure, or cleans up.
FailureStep(c) ==
    \/ pc[c] \in {"fetch", "send"} /\ pc'[c] = "finally"
    \/ pc[c] = "finally" /\ pc'[c] = "done"

\* C2: after a send or fetch failure on one connection, that connection is
\* removed from the registry and no further frame is sent to it, while every
\* other connection stays registered and its own fetch/send/sleep cycle is
\* left as it was.
C2_FailureIsolation ==
    /\ [](\A d \in Conns : InLoop(d) => InList(active_connections, d))
    /\ [](\A c \in Conns :
              (pc[c] = "done" /\ ws[c].exit \in {"fetch_error", "send_error"})
                  => ~InList(active_connections, c))
    /\ [][\A c \in Conns :
              /\ (pc[c] \in {"finally", "done"} =>
                      /\ ws'[c].frames = ws[c].frames
                      /\ pc'[c] \in {"finally", "done"})
              /\ FailureStep(c) =>
                     \A d \in Conns \ {c} :
                         /\ pc'[d] = pc[d]
                         /\ ws'[d] = ws[d]
                         /\ client_state'[d] = client_state[d]
                         /\ InList(active_connections', d)
                                = InList(active_connections, d)]_vars

\* One connection failed on send and is gone; the other, still registered, has
\* received a frame after that.
C2_Witness ==
    \E c \in Conns, d \in Conns :
        /\ c # d
        /\ pc[c] = "done" /\ ws[c].exit = "send_error"
        /\ ~InList(active_connections, c)
        /\ InList(active_connections, d)
        /\ pc[d] = "sleep"
        /\ ws[d].after_peer_exit
        /\ ws[d].frames = MaxFrames

(***************************************************************************)
(* get_stock_context on every snapshot.                                    *)
(***************************************************************************)
\* get_stock_context returns its text or raises.
ReturnContext ==
    /\ ctx.stage = "called"
    /\ ctx' = [ctx EXCEPT !.stage = "done", !.result = get_stock_context(ctx.stock_data)]
    /\ UNCHANGED <<loopVars, wsVars, wlVars, ai, ext, chat_history, chat>>

NextCtx == ReturnContext

\* A caller has passed a snapshot.
InitCtx ==
    /\ pc = pc0
    /\ task = task0
    /\ loop_thread = "free"
    /\ client_state = client_state0
    /\ active_connections = <<>>
    /\ ws = ws0
    /\ watchlist = <<>>
    /\ http = http0
    /\ chat_history = <<>>
    /\ chat = chat0
    /\ ai = ai0
    /\ ext = ext0
    /\ \E v1 \in Offers("symbol"), v2 \in Offers("company_name"),
          v3 \in Offers("price"), v4 \in Offers("change_percent"),
          v5 \in Offers("volume"), v6 \in Offers("market_cap"),
          v7 \in Offers("day_high"), v8 \in Offers("day_low"),
          v9 \in Offers("pe_ratio"), v10 \in Offers("beta") :
           ctx = [ctx0 EXCEPT
                     !.stage = "called",
                     !.stock_data =
                         SomeDict(MakeDict(<<v1, v2, v3, v4, v5, v6, v7, v8, v9, v10>>))]

SpecCtx == InitCtx /\ [][NextCtx]_vars

\* A key with no value in the snapshot: absent, or present and None.
Missing(d, key) == key \notin DOMAIN d \/ d[key] = PyNone

\* The rendered text holds "N/A" right after the label of line i.
ShowsNA(text, i) ==
    \E j \in 1 .. (Len(text) - 1) :
        text[j] = ContextLines[i].label /\ text[j + 1] = "N/A"

RECURSIVE ValueFrom(_, _)
\* The pieces of the text from position j up to the end of the line.
ValueFrom(text, j) ==
    IF j > Len(text) \/ text[j] \in {"\n", "%\n"} THEN <<>>
    ELSE <<text[j]>> \o ValueFrom(text, j + 1)

\* What the text shows after the label of line i.
Shown(text, i) ==
    LET j == CHOOSE j \in 1 .. Len(text) : text[j] = ContextLines[i].label
    IN ValueFrom(text, j + 1)

NotComma(c) == c # ","

\* v is the int n with a comma before every group of three digits.
Grouped(v, n) ==
    /\ SelectSeq(v, NotComma) = Digits(n)
    /\ \A j \in 1 .. Len(v) : v[j] = "," <=> (j < Len(v) /\ (Len(v) - j) % 4 = 3)

\* C8: for a snapshot with a missing field the rendered block holds the
\* literal "N/A" for that field, for every rendered field, whether the field
\* is absent or present with no value; volume and market cap are rendered
\* with thousands separators.
C8_MissingFieldsRenderNA ==
    ctx.stage = "done" =>
        /\ ~ctx.result.raised
        /\ \A i \in 1 .. Len(ContextLines) :
               LET key == ContextLines[i].key
                   d == ctx.stock_data.d
               IN /\ Missing(d, key) => ShowsNA(ctx.result.text, i)
                  /\ (key \in {"volume", "market_cap"} /\ ~Missing(d, key))
                         => Grouped(Shown(ctx.result.text, i), d[key].n)

\* What the code does guarantee: when no exception is raised, an absent key of
\* a line without a format spec shows "N/A", and a volume or market cap that
\* is there shows grouped digits.
ContextWhenRendered ==
    (ctx.stage = "done" /\ ~ctx.result.raised /\ ctx.result.text # <<>>) =>
        \A i \in 1 .. Len(ContextLines) :
            LET key == ContextLines[i].key
                d == ctx.stock_data.d
            IN /\ (key \notin DOMAIN d /\ ContextLines[i].fmt = "")
                      => Shown(ctx.result.text, i) = <<"N/A">>
               /\ (key \in {"volume", "market_cap"})
                      => Grouped(Shown(ctx.result.text, i), d[key].n)

(***************************************************************************)
(* AIService.chat on its inputs and on every outcome of the inference call.*)
(***************************************************************************)
\* chat builds its message list; an exception here leaves chat.
ChatBuild ==
    /\ ai.stage = "called"
    /\ LET b == BuildMessages(ai.user_message, ai.stock_data, ai.chat_history)
       IN ai' = [ai EXCEPT
                    !.built = b,
                    !.stage = IF b.raised THEN "raised" ELSE "awaiting",
                    !.result = IF b.raised THEN b ELSE @]
    /\ UNCHANGED <<loopVars, wsVars, wlVars, ctx, ext, chat_history, chat>>

\* The inference call ends and chat returns or raises.
ChatRespond ==
    /\ ai.stage = "awaiting"
    /\ \E o \in Outcomes :
           LET r == Respond(o)
           IN ai' = [ai EXCEPT
                        !.outcome = o,
                        !.result = r,
                        !.stage = IF r.raised THEN "raised" ELSE "returned"]
    /\ UNCHANGED <<loopVars, wsVars, wlVars, ctx, ext, chat_history, chat>>

NextAI ==
    \/ ChatBuild
    \/ ChatRespond

\* A caller has passed a message, a snapshot and a history.
InitAI ==
    /\ pc = pc0
    /\ task = task0
    /\ loop_thread = "free"
    /\ client_state = client_state0
    /\ active_connections = <<>>
    /\ ws = ws0
    /\ watchlist = <<>>
    /\ http = http0
    /\ chat_history = <<>>
    /\ chat = chat0
    /\ ctx = ctx0
    /\ ext = ext0
    /\ \E m \in ChatQuestions, sd \in ChatSnapshots, h \in ChatHistories :
           ai = [ai0 EXCEPT !.stage = "called", !.user_message = m,
                            !.stock_data = sd, !.chat_history = h]

SpecAI == InitAI /\ [][NextAI]_vars

\* C6: chat never raises past its boundary: for every message, snapshot
\* (fields absent or None included), history and outcome of the inference
\* call, chat returns a string.
C6_ChatNeverRaises ==
    /\ ai.stage # "raised"
    /\ ai.stage = "returned" => (~ai.result.raised /\ ai.result.value.t = "str")

\* C9: a timeout of the inference request yields the slow-response message
\* and a connection failure the unreachable message, both returned and not
\* raised; neither is the other nor the generic error message.
C9_TimeoutAndConnectMessages ==
    (ai.stage \in {"returned", "raised"} /\ ai.outcome.kind = "exception") =>
        /\ IsSubclass(ai.outcome.class, "TimeoutException") =>
               /\ ai.stage = "returned"
               /\ ai.result = [raised |-> FALSE, value |-> PyStr(SlowMessage)]
               /\ ai.result.value.s # UnreachableMessage
               /\ ai.result.value.s # ErrorMessage(ai.outcome.detail)
        /\ ai.outcome.class = "ConnectError" =>
               /\ ai.stage = "returned"
               /\ ai.result = [raised |-> FALSE, value |-> PyStr(UnreachableMessage)]
               /\ ai.result.value.s # SlowMessage
               /\ ai.result.value.s # ErrorMessage(ai.outcome.detail)
        /\ (ai.result.value.s \in {SlowMessage, UnreachableMessage} =>
               \/ IsSubclass(ai.outcome.class, "TimeoutException")
               \/ ai.outcome.class = "ConnectError")

\* Both fixed messages have been returned: here the timeout.
C9_Witness ==
    /\ ai.stage = "returned"
    /\ ai.outcome.kind = "exception" /\ ai.outcome.class = "ReadTimeout"
    /\ ai.result.value = PyStr(SlowMessage)
    /\ ~ai.stock_data.isNone

\* The connection failure.
C9_WitnessConnect ==
    /\ ai.stage = "returned"
    /\ ai.outcome.kind = "exception" /\ ai.outcome.class = "ConnectError"
    /\ ai.result.value = PyStr(UnreachableMessage)

(***************************************************************************)
(* extract_stock_symbol on messages of up to MaxWords pieces.              *)
(***************************************************************************)
ReturnSymbol ==
    /\ ext.stage = "called"
    /\ ext' = [ext EXCEPT !.stage = "done",
                          !.result = extract_stock_symbol(ext.message)]
    /\ UNCHANGED <<loopVars, wsVars, wlVars, ctx, ai, chat_history, chat>>

NextExt == ReturnSymbol

\* A caller has passed a message.
InitExt ==
    /\ pc = pc0
    /\ task = task0
    /\ loop_thread = "free"
    /\ client_state = client_state0
    /\ active_connections = <<>>
    /\ ws = ws0
    /\ watchlist = <<>>
    /\ http = http0
    /\ chat_history = <<>>
    /\ chat = chat0
    /\ ctx = ctx0
    /\ ai = ai0
    /\ \E n \in 0 .. MaxWords :
           \E parts \in [1 .. n -> Words] :
               ext = [ext0 EXCEPT !.stage = "called", !.message = Concat(parts)]

SpecExt == InitExt /\ [][NextExt]_vars

\* The allow-list positions of the symbols that occur in the upper-cased message.
Occurring(message) ==
    {i \in 1 .. Len(common_symbols) : Contains(common_symbols[i], upper(message))}

\* C10: extract_stock_symbol returns the first symbol, in allow-list order,
\* that is a substring of the upper-cased message, and None exactly when no
\* allow-list symbol is one; "How is V doing today" gives "V".
C10_FirstAllowListSymbol ==
    ext.stage = "done" =>
        /\ ext.result = PyNone <=> Occurring(ext.message) = {}
        /\ Occurring(ext.message) # {} =>
               \E i \in Occurring(ext.message) :
                   /\ \A j \in Occurring(ext.message) : i <= j
                   /\ ext.result = PyStr(common_symbols[i])
        /\ ext.message = <<"H", "o", "w", " ", "i", "s", " ", "V", " ", "d", "o", "i", "n", "g", " ", "t", "o", "d", "a", "y">>
               => ext.result = PyStr(<<"V">>)

\* "How is V doing today" has been scanned and gave "V".
C10_Witness ==
    /\ ext.stage = "done"
    /\ ext.message = <<"H", "o", "w", " ", "i", "s", " ", "V", " ", "d", "o", "i", "n", "g", " ", "t", "o", "d", "a", "y">>
    /\ ext.result = PyStr(<<"V">>)

\* A message naming TSLA before aapl gave AAPL, the earlier in the allow-list.
C10_WitnessOrder ==
    /\ ext.stage = "done"
    /\ ext.message = <<"T", "S", "L", "A", " ", "a", "n", "d", " ", "a", "a", "p", "l">>
    /\ ext.result = PyStr(<<"A", "A", "P", "L">>)

(***************************************************************************)
(* POST /api/chat over sessions that grow to MaxTurns turns.               *)
(***************************************************************************)
\* POST /api/chat.  fetched is what get_stock_data returns when it is called,
\* outcome how the inference call ends.  An exception of AIService.chat, or
\* the KeyError of stock_data['symbol'], leaves the handler before anything
\* is saved.
chat_handler(session_id, message, stock_symbol, fetched, outcome) ==
    /\ \E stock_data \in {StockData(message, stock_symbol, fetched)} :
       \E history_list \in {HistoryList(chat_history, session_id)} :
       \E built \in {BuildMessages(message, stock_data, SomeList(history_list))} :
       \E ai_response \in {IF built.raised THEN built ELSE Respond(outcome)} :
           IF \/ ai_response.raised
              \/ (~stock_data.isNone /\ DOMAIN stock_data.d # {}
                      /\ "symbol" \notin DOMAIN stock_data.d)
           THEN /\ chat' = [status |-> 500, session_id |-> session_id,
                            user_message |-> message,
                            stock_symbol |-> stock_symbol,
                            stock_data |-> stock_data, built |-> built,
                            response |-> PyNone]
                /\ chat_history' = chat_history
           ELSE /\ chat' = [status |-> 200, session_id |-> session_id,
                            user_message |-> message,
                            stock_symbol |-> stock_symbol,
                            stock_data |-> stock_data, built |-> built,
                            response |-> ai_response.value]
                /\ chat_history' =
                       Append(chat_history,
                              [session_id |-> session_id,
                               user_message |-> message,
                               ai_response |-> ai_response.value.s,
                               stock_symbol |-> SavedSymbol(stock_data, stock_symbol),
                               created_at |-> created_at_default(chat_history)])
    /\ UNCHANGED <<loopVars, wsVars, wlVars, ctx, ai, ext>>

\* A request while the table has room for MaxTurns rows.
chat_request(session_id, message, stock_symbol, fetched, outcome) ==
    /\ Len(chat_history) < MaxTurns
    /\ chat_handler(session_id, message, stock_symbol, fetched, outcome)

\* The inference call answers.
Answered ==
    [kind |-> "response", status |-> 200,
     body |-> JsonBody("dict", PyStr(<<"Apple is up today.">>))]

NextChat ==
    \E sid \in Sessions, m \in ChatQuestions :
        \E asked \in {AskedSymbol(m, NoSymbol)} :
            chat_request(sid, m, NoSymbol,
                         IF asked = PyNone THEN NoDict ELSE QuoteFor(asked.s),
                         Answered)

InitChat ==
    /\ pc = pc0
    /\ task = task0
    /\ loop_thread = "free"
    /\ client_state = client_state0
    /\ active_connections = <<>>
    /\ ws = ws0
    /\ watchlist = <<>>
    /\ http = http0
    /\ chat_history = <<>>
    /\ chat = chat0
    /\ ctx = ctx0
    /\ ai = ai0
    /\ ext = ext0

SpecChat == InitChat /\ [][NextChat]_vars

RECURSIVE SelectSession(_, _)
\* The rows of a session, in the order they were saved.
SelectSession(rows, session_id) ==
    IF rows = <<>> THEN <<>>
    ELSE IF Head(rows).session_id = session_id
    THEN <<Head(rows)>> \o SelectSession(Tail(rows), session_id)
    ELSE SelectSession(Tail(rows), session_id)

\* The turns the session of the last request had before that request.
PriorTurns ==
    SelectSession(SubSeq(chat_history, 1, Len(chat_history) - 1), chat.session_id)

Min(a, b) == IF a < b THEN a ELSE b

\* C7: for a session with n prior turns the message list is one system
\* message, then a user and an assistant message for each of the last
\* min(n, 5) turns, oldest of them first, then one final user message.
C7_LastFiveTurnsOldestFirst ==
    chat.status = 200 =>
        LET n == Len(PriorTurns)
            k == Min(n, 5)
            msgs == chat.built.messages
            final == msgs[Len(msgs)]
        IN /\ ~chat.built.raised
           /\ Len(msgs) = 2 * k + 2
           /\ msgs[1] = [role |-> "system", content |-> system_prompt]
           /\ \A j \in 1 .. k :
                  /\ msgs[2 * j] =
                         [role |-> "user",
                          content |-> PriorTurns[n - k + j].user_message]
                  /\ msgs[2 * j + 1] =
                         [role |-> "assistant",
                          content |-> PriorTurns[n - k + j].ai_response]
           /\ final.role = "user"
           /\ Len(final.content) >= Len(chat.user_message)
           /\ SubSeq(final.content,
                     Len(final.content) - Len(chat.user_message) + 1,
                     Len(final.content)) = chat.user_message

\* A request in a session of 7 prior turns, the two oldest unlike the third.
C7_Witness ==
    /\ chat.status = 200
    /\ chat.session_id = "s1"
    /\ Len(PriorTurns) = 7
    /\ Len(chat.built.messages) = 12
    /\ PriorTurns[1].user_message = <<"h", "i">>
    /\ PriorTurns[2].user_message = <<"h", "i">>
    /\ PriorTurns[3].user_message = <<"W", "h", "a", "t", " ", "a", "b", "o", "u", "t", " ", "A", "A", "P", "L", "?">>
    /\ PriorTurns[7].user_message = <<"h", "i">>
    /\ chat.built.messages[2].content = <<"W", "h", "a", "t", " ", "a", "b", "o", "u", "t", " ", "A", "A", "P", "L", "?">>

(***************************************************************************)
(* POST /api/chat over every kind of request, quote and inference outcome, *)
(* on a table of up to MaxRows rows.                                       *)
(***************************************************************************)
\* What the request may carry as stock_symbol: nothing, "", or a symbol.
RequestedSymbols == {NoSymbol, SomeSymbol(<<>>), SomeSymbol(<<"t", "s", "l", "a">>)}

\* What get_stock_data may return for a symbol: None, a quote, or a quote
\* the context template cannot render.
QuotesFor(symbol) ==
    { NoDict, QuoteFor(symbol),
      SomeDict(Without([FullSnapshot EXCEPT !["symbol"] = PyStr(symbol)], "volume")) }

\* How the inference call may end.
TurnOutcomes ==
    { Answered,
      [kind |-> "exception", class |-> "ReadTimeout", detail |-> <<"timed out">>] }

\* A request while the table has room for MaxRows rows.
chat_turn(session_id, message, stock_symbol, fetched, outcome) ==
    /\ Len(chat_history) < MaxRows
    /\ chat_handler(session_id, message, stock_symbol, fetched, outcome)

NextTurn ==
    \E sid \in Sessions, m \in ChatQuestions, sym \in RequestedSymbols,
       o \in TurnOutcomes :
        \E asked \in {AskedSymbol(m, sym)} :
            \E fetched \in (IF asked = PyNone THEN {NoDict} ELSE QuotesFor(asked.s)) :
                chat_turn(sid, m, sym, fetched, o)

InitTurn ==
    /\ pc = pc0
    /\ task = task0
    /\ loop_thread = "free"
    /\ client_state = client_state0
    /\ active_connections = <<>>
    /\ ws = ws0
    /\ watchlist = <<>>
    /\ http = http0
    /\ chat_history = <<>>
    /\ chat = chat0
    /\ ctx = ctx0
    /\ ai = ai0
    /\ ext = ext0

SpecTurn == InitTurn /\ [][NextTurn]_vars

\* The symbol the request names: its stock_symbol upper-cased if given,
\* otherwise the first allow-list symbol occurring in the message.
NamedSymbol(message, stock_symbol) ==
    IF ~stock_symbol.isNone /\ stock_symbol.s # <<>>
    THEN PyStr(upper(stock_symbol.s))
    ELSE IF Occurring(message) = {} THEN PyNone
    ELSE PyStr(common_symbols[CHOOSE i \in Occurring(message) :
                                  \A j \in Occurring(message) : i <= j])

\* A step that handles a POST /api/chat.
ChatHandled == chat' # chat \/ chat_history' # chat_history

\* C11: every POST /api/chat that completes appends exactly one Chat Turn to
\* the session's history and changes or deletes no existing turn; the stored
\* stock_symbol is the symbol of the snapshot used for the response (from the
\* request's stock_symbol if given, otherwise from the symbol extracted from
\* the message) and is empty when no snapshot was obtained.
C11_OneTurnAppended ==
    [][(ChatHandled /\ chat'.status = 200) =>
           /\ Len(chat_history') = Len(chat_history) + 1
           /\ SubSeq(chat_history', 1, Len(chat_history)) = chat_history
           /\ LET turn == chat_history'[Len(chat_history')]
                  got == ~chat'.stock_data.isNone
              IN /\ turn.session_id = chat'.session_id
                 /\ turn.user_message = chat'.user_message
                 /\ turn.ai_response = chat'.response.s
                 /\ \A i \in 1 .. Len(chat_history) :
                        chat_history[i].created_at < turn.created_at
                 /\ got => /\ turn.stock_symbol = chat'.stock_data.d["symbol"]
                           /\ turn.stock_symbol =
                                  NamedSymbol(chat'.user_message, chat'.stock_symbol)
                 /\ ~got => turn.stock_symbol = PyNone]_vars

\* A turn saved with the upper-cased symbol of the request, which wins over
\* the symbol in its message, after a turn saved with no symbol.
C11_Witness ==
    /\ Len(chat_history) = 2
    /\ chat.status = 200
    /\ chat.stock_symbol = SomeSymbol(<<"t", "s", "l", "a">>)
    /\ Occurring(chat.user_message) # {}
    /\ chat_history[2].stock_symbol = PyStr(<<"T", "S", "L", "A">>)
    /\ chat_history[2].session_id = "s1"
    /\ chat_history[1].session_id = "s1"
    /\ chat_history[1].stock_symbol = PyNone

(***************************************************************************)
(* The event loop: requests of every handler, arriving in any order.       *)
(***************************************************************************)
NextLoop ==
    \E h \in Handlers :
        \/ Arrive(h)
        \/ SubmitToPool(h)
        \/ FetchInline(h)
        \/ PoolFetchReturns(h)
        \/ InlineFetchReturns(h)
        \/ Resume(h)

InitLoop ==
    /\ pc = pc0
    /\ task = task0
    /\ loop_thread = "free"
    /\ client_state = client_state0
    /\ active_connections = <<>>
    /\ ws = ws0
    /\ watchlist = <<>>
    /\ http = http0
    /\ chat_history = <<>>
    /\ chat = chat0
    /\ ctx = ctx0
    /\ ai = ai0
    /\ ext = ext0

SpecLoop == InitLoop /\ [][NextLoop]_vars

\* The handler has a quote fetch in flight.
InFlight(h) == task[h] \in {"inline", "pool"}

\* The handler needs the event loop thread for its next step.
Waiting(h) == task[h] \in {"ready", "resumable"}

\* C12: every quote fetch is delegated to the worker thread pool, so while
\* any handler has a quote fetch in flight the event loop thread is free and
\* every other request or connection that waits for it can take its step.
C12_FetchNeverBlocksLoop ==
    \A h \in Handlers :
        InFlight(h) =>
            /\ task[h] = "pool"
            /\ \A g \in Handlers \ {h} :
                   Waiting(g) => ENABLED (SubmitToPool(g) \/ FetchInline(g) \/ Resume(g))

\* While only fetches of the four delegating handlers are in flight, the
\* event loop thread is free.
DelegatedFetchLeavesLoopFree ==
    (\A h \in Handlers : InFlight(h) => Delegated(h)) => loop_thread = "free"

(***************************************************************************)
(* The order of the steps of one iteration of the /ws/stocks loop.         *)
(***************************************************************************)
\* The fetch or the send of the handler has failed.
LoopFailed(c) == ws[c].exit \in {"fetch_error", "send_error"}

\* C13: every frame sent to a connection is preceded, in the same iteration,
\* by a state check that found the connection CONNECTED and by one fetch;
\* when the check at the top of an iteration finds the connection no longer
\* open the loop exits with no fetch and no send; after a failed fetch or
\* send there is no retry: the loop ends with no other fetch, send or sleep.
C13_IterationOrder ==
    [][\A c \in Conns :
         /\ ws'[c].frames # ws[c].frames =>
                /\ ws'[c].frames = ws[c].frames + 1
                /\ pc[c] = "send"
                /\ ws[c].checked = "CONNECTED"
                /\ ws[c].fetches = 1 /\ ws'[c].fetches = 1
                /\ ws[c].sends = 0 /\ ws'[c].sends = 1
         /\ (pc[c] = "check" /\ pc'[c] # "check"
                 /\ client_state[c] # "CONNECTED") =>
                /\ pc'[c] = "finally"
                /\ ws'[c].exit = "state"
                /\ ws'[c].fetches = 0 /\ ws'[c].sends = 0
                /\ ws'[c].frames = ws[c].frames
         /\ ws[c].exit = "state" =>
                /\ pc[c] \in {"finally", "done"} /\ pc'[c] \in {"finally", "done"}
                /\ ws'[c].fetches = 0 /\ ws'[c].sends = 0
                /\ ws'[c].frames = ws[c].frames
         /\ (~LoopFailed(c) /\ LoopFailed(c)') =>
                /\ pc[c] \in {"fetch", "send"}
                /\ pc'[c] = "finally"
                /\ ws'[c].frames = ws[c].frames
         /\ LoopFailed(c) =>
                /\ pc[c] \in {"finally", "done"} /\ pc'[c] \in {"finally", "done"}
                /\ ws'[c].exit = ws[c].exit
                /\ ws'[c].fetches = ws[c].fetches
                /\ ws'[c].sends = ws[c].sends
                /\ ws'[c].frames = ws[c].frames]_vars

\* One handler sent a frame and ended when the send of its next iteration
\* failed; the other ended at a check that found its connection closed.
C13_Witness ==
    /\ pc[1] = "done" /\ ws[1].exit = "send_error"
    /\ ws[1].frames = 1 /\ ws[1].fetches = 1 /\ ws[1].sends = 1
    /\ pc[2] = "done" /\ ws[2].exit = "state"
    /\ ws[2].checked = "DISCONNECTED" /\ ws[2].fetches = 0

====
